---- MODULE Spec2Model ----
(***************************************************************************)
(* A model of the CHIP-8 interpreter (class Chip8, src/src/chip8.cpp) and  *)
(* of the part of the host loop (class Emulator) that drives it.           *)
(*                                                                         *)
(* The variable chip8 is the Emulator's member of that name: a record with *)
(* one field per data member of class Chip8.  pixels, a std::array of 2048 *)
(* bools, is kept as the set of the indices whose bool is true.            *)
(***************************************************************************)
EXTENDS Integers, Sequences, FiniteSets, TLC

VARIABLES
    chip8,      \* Emulator::chip8, the machine
    phase,      \* where main()/Emulator::run() is: "startup", "loop", "exit_failure", "undefined"
    error,      \* what() of the runtime_error main() caught, "" if none
    rom_file,   \* the file at rom_path: [exists, bytes]
    default_file, \* the file at ./assets/roms/PONG: [exists, bytes]
    step_parity, \* history: the number of chip8.step() calls made so far, modulo 2
    calls,      \* history: the 2NNN not yet returned from, oldest first: [at, sp]
    prev,       \* history: pixels, V and I of the machine before the last chip8.step()
    sound_played, \* Emulator::handleSound called sound.play() in the last iteration of the loop
    paused,     \* Emulator::paused
    have_focus, \* Emulator::have_focus
    screen,     \* the frame the window shows: the lit pixels Emulator::updateScreen drew last
    step_draw_flag, \* history: chip8.draw_flag as the last chip8.step() left it, before updateScreen
    pause_presses \* history: the number of presses of P or Pause so far, modulo 2

vars == <<chip8, phase, error, rom_file, default_file, step_parity, calls, prev, sound_played,
          paused, have_focus, screen, step_draw_flag, pause_presses>>

----------------------------------------------------------------------------
(* Program constants *)

MEM_SIZE == 4096
PROGRAM_START == 512
ROM_SIZE_MAX == MEM_SIZE - PROGRAM_START
WIDTH == 64
HEIGHT == 32
UINT8_MAX == 255
SOUND_TIMER_THRESHOLD == 1
NUM_PIXELS == WIDTH * HEIGHT
NUM_REGS == 16
NUM_KEYS == 16

Byte == 0..255

\* The conversions of the fixed-width types
U8(x) == x % 256
U16(x) == x % 65536
\* (char)b for a byte read from the file, on a build whose char is signed
ToChar(b) == IF b > 127 THEN b - 256 ELSE b

RECURSIVE BitAnd(_, _)
BitAnd(a, b) ==
    IF a = 0 \/ b = 0 THEN 0
    ELSE (a % 2) * (b % 2) + 2 * BitAnd(a \div 2, b \div 2)

RECURSIVE BitOr(_, _)
BitOr(a, b) ==
    IF a = 0 THEN b
    ELSE IF b = 0 THEN a
    ELSE (IF a % 2 = 1 \/ b % 2 = 1 THEN 1 ELSE 0) + 2 * BitOr(a \div 2, b \div 2)

RECURSIVE BitXor(_, _)
BitXor(a, b) ==
    IF a = 0 THEN b
    ELSE IF b = 0 THEN a
    ELSE ((a + b) % 2) + 2 * BitXor(a \div 2, b \div 2)

\* The hexadecimal digit sprites the constructor writes to memory[0..79]
sprites ==
    << 240, 144, 144, 144, 240,
        32,  96,  32,  32, 112,
       240,  16, 240, 128, 240,
       240,  16, 240,  16, 240,
       144, 144, 240,  16,  16,
       240, 128, 240,  16, 240,
       240, 128, 240, 144, 240,
       240,  16,  32,  64,  64,
       240, 144, 240, 144, 240,
       240, 144, 240,  16, 240,
       240, 144, 240, 144, 144,
       224, 144, 224, 144, 224,
       240, 128, 128, 128, 240,
       224, 144, 144, 144, 224,
       240, 128, 240, 128, 240,
       240, 128, 240, 128, 128 >>

\* A constructor that leaves pc at 0
Chip8Init_mut ==
    [ sp |-> 0,
      pc |-> 0,
      opcode |-> 0,
      I |-> 0,
      draw_flag |-> FALSE,
      delay_timer |-> 0,
      sound_timer |-> 0,
      memory |-> [a \in 0..(MEM_SIZE - 1) |-> IF a < Len(sprites) THEN sprites[a + 1] ELSE 0],
      V |-> [r \in 0..(NUM_REGS - 1) |-> 0],
      stack |-> [r \in 0..(NUM_REGS - 1) |-> 0],
      keys_pressed |-> [k \in 0..(NUM_KEYS - 1) |-> FALSE],
      pixels |-> {},
      old_instructions |-> FALSE ]

\* Chip8::Chip8().  The constructor does not assign old_instructions: Init
\* chooses the value the member has when the loop starts
Chip8Init ==
    [ sp |-> 0,
      pc |-> PROGRAM_START,
      opcode |-> 0,
      I |-> 0,
      draw_flag |-> FALSE,
      delay_timer |-> 0,
      sound_timer |-> 0,
      memory |-> [a \in 0..(MEM_SIZE - 1) |-> IF a < Len(sprites) THEN sprites[a + 1] ELSE 0],
      V |-> [r \in 0..(NUM_REGS - 1) |-> 0],
      stack |-> [r \in 0..(NUM_REGS - 1) |-> 0],
      keys_pressed |-> [k \in 0..(NUM_KEYS - 1) |-> FALSE],
      pixels |-> {},
      old_instructions |-> FALSE ]

----------------------------------------------------------------------------
(* Chip8::executeNextInstruction, one operator per case of its switch.     *)
(* c is the machine before the case runs, with opcode already fetched.     *)

AdvancePc(c, n) == [c EXCEPT !.pc = U16(c.pc + n)]

\* A default case that steps over the opcode it reports
Unknown_mut(c) == AdvancePc(c, 2)

\* The default cases: std::cerr << "Unknown opcode ..."; break;
Unknown(c) == c

\* A compare that never skips
Skip_mut(c, cond) == AdvancePc(c, 2)

\* if (cond) pc += 4; else pc += 2;
Skip(c, cond) == IF cond THEN AdvancePc(c, 4) ELSE AdvancePc(c, 2)

\* 00E0 without draw_flag = true
ClearScreen_mut(c) == AdvancePc([c EXCEPT !.pixels = {}], 2)

\* 00E0
ClearScreen(c) ==
    AdvancePc([c EXCEPT !.pixels = {}, !.draw_flag = TRUE], 2)

\* 00EE without pc += 2: the return lands on the 2NNN that made the call
Return_mut(c) ==
    LET sp1 == U8(c.sp - 1 + 256)
    IN  [c EXCEPT !.sp = sp1, !.pc = c.stack[sp1]]

\* 00EE: --sp on a uint8_t, then pc = stack[sp], then pc += 2
Return(c) ==
    LET sp1 == U8(c.sp - 1 + 256)
    IN  AdvancePc([c EXCEPT !.sp = sp1, !.pc = c.stack[sp1]], 2)

\* 1NNN landing one byte past the target
Jump_mut(c, NNN) == [c EXCEPT !.pc = NNN + 1]

\* 1NNN
Jump(c, NNN) == [c EXCEPT !.pc = NNN]

\* 2NNN without ++sp: the next call overwrites the return address
Call_mut(c, NNN) ==
    [c EXCEPT !.stack = [c.stack EXCEPT ![c.sp] = c.pc],
              !.pc = NNN]

\* 2NNN
Call(c, NNN) ==
    [c EXCEPT !.stack = [c.stack EXCEPT ![c.sp] = c.pc],
              !.sp = U8(c.sp + 1),
              !.pc = NNN]

\* 6XNN
LoadImm(c, X, NN) == AdvancePc([c EXCEPT !.V = [c.V EXCEPT ![X] = NN]], 2)

\* 7XNN with a carry flag in VF
AddImm_mut(c, X, NN) ==
    LET V1 == [c.V EXCEPT ![X] = U8(c.V[X] + NN)]
    IN  AdvancePc([c EXCEPT !.V = [V1 EXCEPT ![15] = IF c.V[X] + NN > UINT8_MAX THEN 1 ELSE 0]], 2)

\* 7XNN
AddImm(c, X, NN) == AdvancePc([c EXCEPT !.V = [c.V EXCEPT ![X] = U8(c.V[X] + NN)]], 2)

\* 8XY0 .. 8XY3
Move(c, X, Y) == AdvancePc([c EXCEPT !.V = [c.V EXCEPT ![X] = c.V[Y]]], 2)
OrReg(c, X, Y) == AdvancePc([c EXCEPT !.V = [c.V EXCEPT ![X] = BitOr(c.V[X], c.V[Y])]], 2)
AndReg(c, X, Y) == AdvancePc([c EXCEPT !.V = [c.V EXCEPT ![X] = BitAnd(c.V[X], c.V[Y])]], 2)
XorReg(c, X, Y) == AdvancePc([c EXCEPT !.V = [c.V EXCEPT ![X] = BitXor(c.V[X], c.V[Y])]], 2)

\* 8XY4: the flag is stored first, the sum reads the registers after that store
AddReg(c, X, Y) ==
    LET V1 == [c.V EXCEPT ![15] = IF c.V[X] + c.V[Y] > UINT8_MAX THEN 1 ELSE 0]
        V2 == [V1 EXCEPT ![X] = U8(V1[X] + V1[Y])]
    IN  AdvancePc([c EXCEPT !.V = V2], 2)

\* 8XY5 with the borrow test written <= 0: a borrow is flagged when VX = VY
SubReg_mut(c, X, Y) ==
    LET V1 == [c.V EXCEPT ![15] = IF c.V[X] - c.V[Y] <= 0 THEN 0 ELSE 1]
        V2 == [V1 EXCEPT ![X] = U8(V1[X] - V1[Y] + 256)]
    IN  AdvancePc([c EXCEPT !.V = V2], 2)

\* 8XY5
SubReg(c, X, Y) ==
    LET V1 == [c.V EXCEPT ![15] = IF c.V[X] - c.V[Y] < 0 THEN 0 ELSE 1]
        V2 == [V1 EXCEPT ![X] = U8(V1[X] - V1[Y] + 256)]
    IN  AdvancePc([c EXCEPT !.V = V2], 2)

\* 8XY6 that shifts VX in place unless old_instructions is set
ShiftRight_mut(c, X, Y) ==
    LET src == IF c.old_instructions THEN Y ELSE X
        V1 == [c.V EXCEPT ![X] = c.V[src] \div 2]
        V2 == [V1 EXCEPT ![15] = V1[src] % 2]
    IN  AdvancePc([c EXCEPT !.V = V2], 2)

\* 8XY6: VX is stored first, the flag reads VY after that store
ShiftRight(c, X, Y) ==
    LET V1 == [c.V EXCEPT ![X] = c.V[Y] \div 2]
        V2 == [V1 EXCEPT ![15] = V1[Y] % 2]
    IN  AdvancePc([c EXCEPT !.V = V2], 2)

\* 8XY7
SubRegReverse(c, X, Y) ==
    LET V1 == [c.V EXCEPT ![15] = IF c.V[X] > c.V[Y] THEN 1 ELSE 0]
        V2 == [V1 EXCEPT ![X] = U8(V1[Y] - V1[X] + 256)]
    IN  AdvancePc([c EXCEPT !.V = V2], 2)

\* 8XYE: VX is stored first, the flag reads VY after that store
ShiftLeft(c, X, Y) ==
    LET V1 == [c.V EXCEPT ![X] = U8(c.V[Y] * 2)]
        V2 == [V1 EXCEPT ![15] = V1[Y] \div 128]
    IN  AdvancePc([c EXCEPT !.V = V2], 2)

\* ANNN without pc += 2
LoadIndex_mut(c, NNN) == [c EXCEPT !.I = NNN]

\* ANNN
LoadIndex(c, NNN) == AdvancePc([c EXCEPT !.I = NNN], 2)

\* BNNN
JumpOffset(c, NNN) == [c EXCEPT !.pc = U16(NNN + c.V[0])]

\* CXNN without the mask
Random_mut(c, X, NN, r) == AdvancePc([c EXCEPT !.V = [c.V EXCEPT ![X] = r]], 2)

\* CXNN, r the value of rand() % (UINT8_MAX + 1)
Random(c, X, NN, r) == AdvancePc([c EXCEPT !.V = [c.V EXCEPT ![X] = BitAnd(r, NN)]], 2)

\* DXYN: the index of the pixel that sprite bit (row, col) targets
pixel_location(c, X, Y, row, col) ==
    (c.V[X] + col + (c.V[Y] + row) * WIDTH) % NUM_PIXELS

\* The sprite bit taken from the wrong end: sprite_row & (0x01 << col)
sprite_pixel_mut(sprite_row, col) == (sprite_row \div (2 ^ col)) % 2 = 1

\* DXYN: bit col (0 is the leftmost) of a sprite row
sprite_pixel(sprite_row, col) == (sprite_row \div (2 ^ (7 - col))) % 2 = 1

\* The pixel set instead of flipped: pixels[pixel_location] |= 1
Toggle_mut(pixels, loc) == pixels \cup {loc}

\* DXYN: pixels[pixel_location] ^= 1
Toggle(pixels, loc) == IF loc \in pixels THEN pixels \ {loc} ELSE pixels \cup {loc}

\* DXYN: the inner loop from column col on, for one sprite row; V[X] and V[Y]
\* are re-read at every bit
RECURSIVE DrawRow(_, _, _, _, _, _)
DrawRow(c, X, Y, row, sprite_row, col) ==
    IF col >= 8 THEN c
    ELSE IF sprite_pixel(sprite_row, col)
    THEN LET loc == pixel_location(c, X, Y, row, col)
         IN  DrawRow([c EXCEPT !.V = IF loc \in c.pixels
                                     THEN [c.V EXCEPT ![15] = 1] ELSE c.V,
                               !.pixels = Toggle(c.pixels, loc)],
                     X, Y, row, sprite_row, col + 1)
    ELSE DrawRow(c, X, Y, row, sprite_row, col + 1)

\* DXYN: the outer loop from row on
RECURSIVE DrawFrom(_, _, _, _, _)
DrawFrom(c, X, Y, N, row) ==
    IF row >= N THEN c
    ELSE DrawFrom(DrawRow(c, X, Y, row, c.memory[c.I + row], 0), X, Y, N, row + 1)

\* DXYN without V[0xF] = 0: the flag of an earlier instruction stays
Draw_mut(c, X, Y, N) ==
    AdvancePc([DrawFrom(c, X, Y, N, 0) EXCEPT !.draw_flag = TRUE], 2)

\* DXYN
Draw(c, X, Y, N) ==
    LET c0 == [c EXCEPT !.V = [c.V EXCEPT ![15] = 0]]
        c1 == DrawFrom(c0, X, Y, N, 0)
    IN  AdvancePc([c1 EXCEPT !.draw_flag = TRUE], 2)

\* EX9E that takes the key it finds pressed off the keypad
SkipIfKey_mut(c, X) ==
    Skip([c EXCEPT !.keys_pressed = [c.keys_pressed EXCEPT ![c.V[X]] = FALSE]], c.keys_pressed[c.V[X]])

\* EX9E, EXA1
SkipIfKey(c, X) == Skip(c, c.keys_pressed[c.V[X]])
SkipIfNotKey(c, X) == Skip(c, ~c.keys_pressed[c.V[X]])

\* FX07
ReadDelay(c, X) == AdvancePc([c EXCEPT !.V = [c.V EXCEPT ![X] = c.delay_timer]], 2)

\* FX0A: the loop stores every pressed index in VX in increasing order, so the
\* last store wins; with no key pressed the function returns at once
PressedKeys(c) == {k \in 0..(NUM_KEYS - 1) : c.keys_pressed[k]}

\* The first pressed key found instead of the last
LastPressed_mut(c) == CHOOSE k \in PressedKeys(c) : \A j \in PressedKeys(c) : j >= k

LastPressed(c) == CHOOSE k \in PressedKeys(c) : \A j \in PressedKeys(c) : j <= k

\* FX0A without the early return: PC advances though no key is pressed
WaitKey_mut(c, X) ==
    IF PressedKeys(c) = {} THEN AdvancePc(c, 2)
    ELSE AdvancePc([c EXCEPT !.V = [c.V EXCEPT ![X] = LastPressed(c)]], 2)

WaitKey(c, X) ==
    IF PressedKeys(c) = {} THEN c
    ELSE AdvancePc([c EXCEPT !.V = [c.V EXCEPT ![X] = LastPressed(c)]], 2)

\* FX15, FX18
SetDelay(c, X) == AdvancePc([c EXCEPT !.delay_timer = c.V[X]], 2)
SetSound(c, X) == AdvancePc([c EXCEPT !.sound_timer = c.V[X]], 2)

\* FX1E
AddIndex(c, X) == AdvancePc([c EXCEPT !.I = U16(c.I + c.V[X])], 2)

\* FX29
FontAddress(c, X) == AdvancePc([c EXCEPT !.I = c.V[X] * 5], 2)

\* FX33 one byte low: the digits go to I - 1, I and I + 1
StoreBcd_mut(c, X) ==
    AdvancePc([c EXCEPT !.memory = [a \in 0..(MEM_SIZE - 1) |->
        IF a = c.I - 1 THEN c.V[X] \div 100
        ELSE IF a = c.I THEN (c.V[X] \div 10) % 10
        ELSE IF a = c.I + 1 THEN c.V[X] % 10
        ELSE c.memory[a]]], 2)

\* FX33
StoreBcd(c, X) ==
    LET m1 == [c.memory EXCEPT ![c.I] = c.V[X] \div 100]
        m2 == [m1 EXCEPT ![c.I + 1] = (c.V[X] \div 10) % 10]
        m3 == [m2 EXCEPT ![c.I + 2] = c.V[X] % 10]
    IN  AdvancePc([c EXCEPT !.memory = m3], 2)

\* FX55 that leaves I where it was
StoreRegs_mut(c, X) ==
    AdvancePc([c EXCEPT
        !.memory = [a \in 0..(MEM_SIZE - 1) |->
                       IF a >= c.I /\ a <= c.I + X THEN c.V[a - c.I] ELSE c.memory[a]]], 2)

\* FX55
StoreRegs(c, X) ==
    AdvancePc([c EXCEPT
        !.memory = [a \in 0..(MEM_SIZE - 1) |->
                       IF a >= c.I /\ a <= c.I + X THEN c.V[a - c.I] ELSE c.memory[a]],
        !.I = U16(c.I + X + 1)], 2)

\* FX65
LoadRegs(c, X) ==
    AdvancePc([c EXCEPT
        !.V = [r \in 0..(NUM_REGS - 1) |-> IF r <= X THEN c.memory[c.I + r] ELSE c.V[r]],
        !.I = U16(c.I + X + 1)], 2)

----------------------------------------------------------------------------
(* Fetch, dispatch, timers *)

\* opcode = (memory[pc] << 8) | memory[pc + 1]
Fetch(c) == c.memory[c.pc] * 256 + c.memory[c.pc + 1]

FieldX(op) == (op \div 256) % 16
FieldY(op) == (op \div 16) % 16
FieldN(op) == op % 16
FieldNN(op) == op % 256
FieldNNN(op) == op % 4096

\* The switch of executeNextInstruction; r is the value rand() % 256 would give
executeNextInstruction(c, r) ==
    LET op  == Fetch(c)
        X   == FieldX(op)
        Y   == FieldY(op)
        N   == FieldN(op)
        NN  == FieldNN(op)
        NNN == FieldNNN(op)
        hi  == op \div 4096
        c1  == [c EXCEPT !.opcode = op]
    IN  CASE hi = 0 -> (IF op = 224 THEN ClearScreen(c1)
                        ELSE IF op = 238 THEN Return(c1)
                        ELSE Unknown(c1))
          [] hi = 1 -> Jump(c1, NNN)
          [] hi = 2 -> Call(c1, NNN)
          [] hi = 3 -> Skip(c1, c1.V[X] = NN)
          [] hi = 4 -> Skip(c1, c1.V[X] # NN)
          [] hi = 5 -> Skip(c1, c1.V[X] = c1.V[Y])
          [] hi = 6 -> LoadImm(c1, X, NN)
          [] hi = 7 -> AddImm(c1, X, NN)
          [] hi = 8 -> (CASE N = 0 -> Move(c1, X, Y)
                          [] N = 1 -> OrReg(c1, X, Y)
                          [] N = 2 -> AndReg(c1, X, Y)
                          [] N = 3 -> XorReg(c1, X, Y)
                          [] N = 4 -> AddReg(c1, X, Y)
                          [] N = 5 -> SubReg(c1, X, Y)
                          [] N = 6 -> ShiftRight(c1, X, Y)
                          [] N = 7 -> SubRegReverse(c1, X, Y)
                          [] N = 14 -> ShiftLeft(c1, X, Y)
                          [] OTHER -> Unknown(c1))
          [] hi = 9 -> Skip(c1, c1.V[X] # c1.V[Y])
          [] hi = 10 -> LoadIndex(c1, NNN)
          [] hi = 11 -> JumpOffset(c1, NNN)
          [] hi = 12 -> Random(c1, X, NN, r)
          [] hi = 13 -> Draw(c1, X, Y, N)
          [] hi = 14 -> (CASE NN = 158 -> SkipIfKey(c1, X)
                           [] NN = 161 -> SkipIfNotKey(c1, X)
                           [] OTHER -> Unknown(c1))
          [] hi = 15 -> (CASE NN = 7 -> ReadDelay(c1, X)
                           [] NN = 10 -> WaitKey(c1, X)
                           [] NN = 21 -> SetDelay(c1, X)
                           [] NN = 24 -> SetSound(c1, X)
                           [] NN = 30 -> AddIndex(c1, X)
                           [] NN = 41 -> FontAddress(c1, X)
                           [] NN = 51 -> StoreBcd(c1, X)
                           [] NN = 85 -> StoreRegs(c1, X)
                           [] NN = 101 -> LoadRegs(c1, X)
                           [] OTHER -> Unknown(c1))

\* decrementTimers without the tests for zero: a uint8_t timer at 0 wraps to 255
decrementTimers_mut(c) ==
    [c EXCEPT !.delay_timer = U8(c.delay_timer - 1 + 256),
              !.sound_timer = U8(c.sound_timer - 1 + 256)]

\* Chip8::decrementTimers
decrementTimers(c) ==
    [c EXCEPT !.delay_timer = IF c.delay_timer > 0 THEN c.delay_timer - 1 ELSE c.delay_timer,
              !.sound_timer = IF c.sound_timer > 0 THEN c.sound_timer - 1 ELSE c.sound_timer]

\* step with the two calls in the other order: the timers tick before the
\* instruction runs
step_mut(c, r) == executeNextInstruction(decrementTimers(c), r)

\* Chip8::step
step(c, r) == decrementTimers(executeNextInstruction(c, r))

\* The test of FX33 one byte early: a store that ends at memory[0xFFF] counts as
\* outside
OutOfBounds_mut(c) ==
    IF c.pc + 1 >= MEM_SIZE THEN TRUE
    ELSE LET op == Fetch(c)
             X  == FieldX(op)
             N  == FieldN(op)
             NN == FieldNN(op)
             hi == op \div 4096
         IN  CASE op = 238 -> U8(c.sp - 1 + 256) >= NUM_REGS
               [] hi = 2 -> c.sp >= NUM_REGS
               [] hi = 13 -> N > 0 /\ c.I + N - 1 >= MEM_SIZE
               [] hi = 14 /\ NN \in {158, 161} -> c.V[X] >= NUM_KEYS
               [] hi = 15 /\ NN = 51 -> c.I + 3 >= MEM_SIZE
               [] hi = 15 /\ NN \in {85, 101} -> c.I + X >= MEM_SIZE
               [] OTHER -> FALSE

\* The next step() indexes memory, stack or keys_pressed outside the array: the
\* behaviour of the program is undefined from there on
OutOfBounds(c) ==
    IF c.pc + 1 >= MEM_SIZE THEN TRUE
    ELSE LET op == Fetch(c)
             X  == FieldX(op)
             N  == FieldN(op)
             NN == FieldNN(op)
             hi == op \div 4096
         IN  CASE op = 238 -> U8(c.sp - 1 + 256) >= NUM_REGS
               [] hi = 2 -> c.sp >= NUM_REGS
               [] hi = 13 -> N > 0 /\ c.I + N - 1 >= MEM_SIZE
               [] hi = 14 /\ NN \in {158, 161} -> c.V[X] >= NUM_KEYS
               [] hi = 15 /\ NN = 51 -> c.I + 2 >= MEM_SIZE
               [] hi = 15 /\ NN \in {85, 101} -> c.I + X >= MEM_SIZE
               [] OTHER -> FALSE

\* The size test off by one: a file of ROM_SIZE_MAX + 1 bytes passes
TooLarge_mut(rom_size) == rom_size > ROM_SIZE_MAX + 1

\* Chip8::load: if (rom_size > ROM_SIZE_MAX) throw
TooLarge(rom_size) == rom_size > ROM_SIZE_MAX

\* load with the copy loop one short: the last byte of the file is not copied
load_mut(c, rom) ==
    [c EXCEPT !.memory = [a \in 0..(MEM_SIZE - 1) |->
        IF a >= PROGRAM_START /\ a < PROGRAM_START + Len(rom) - 1
        THEN U8(ToChar(rom[a - PROGRAM_START + 1]) + 256)
        ELSE c.memory[a]]]

\* Chip8::load, the part after the file is open: rom is the file's bytes
load(c, rom) ==
    [c EXCEPT !.memory = [a \in 0..(MEM_SIZE - 1) |->
        IF a >= PROGRAM_START /\ a < PROGRAM_START + Len(rom)
        THEN U8(ToChar(rom[a - PROGRAM_START + 1]) + 256)
        ELSE c.memory[a]]]

\* updateScreen that forgets chip8.draw_flag = false
updateScreen_mut(c) == c

\* Emulator::updateScreen, what it does to the machine: the flag is false after
\* it, whether it drew or not
updateScreen(c) == [c EXCEPT !.draw_flag = FALSE]

\* Emulator::updateScreen, what it does to the window showing the frame shown:
\* with draw_flag set it draws every lit pixel and displays the frame
displayed(c, shown) == IF c.draw_flag THEN c.pixels ELSE shown

\* P or Pause that always pauses
togglePause_mut(p) == TRUE

\* Emulator::handleInput, KeyPressed of P or Pause: paused = !paused
togglePause(p) == ~p

\* Chip8::getSoundTimer
getSoundTimer(c) == c.sound_timer

\* handleSound with the threshold 0: a sound timer of 1 plays the sound
handleSound_mut(c) == getSoundTimer(c) > 0

\* Emulator::handleSound: sound.play() is called exactly when this holds
handleSound(c) == getSoundTimer(c) > SOUND_TIMER_THRESHOLD

\* Chip8::keys_pressed[key] = value, as Emulator::handleInput does on a key event
setKey(c, key, value) == [c EXCEPT !.keys_pressed = [c.keys_pressed EXCEPT ![key] = value]]

----------------------------------------------------------------------------
(* The files the emulator may be started on.  Programs are given as their  *)
(* bytes; they are loaded at 0x200 = 512, so the instruction at offset 2k  *)
(* of a file runs at address 512 + 2k.                                      *)

\* Bounds of the model
NumHostKeys == 2        \* keys of the keypad the user presses and releases
MaxSpriteRows == 2      \* the largest N of a DXYN in DrawRoms
MaxTimer == 3           \* the largest value a TimerRoms program gives a timer
MaxCallDepth == 16      \* the deepest nesting of calls a CallRoms program makes

HostKeys == {(k * 11 + 4) % NUM_KEYS : k \in 1..NumHostKeys}

\* <<X, Y>> of the 8XYk programs: distinct registers, X = Y, Y = F, X = F, both F
RegPairs == {<<0, 1>>, <<0, 0>>, <<0, 15>>, <<15, 0>>, <<15, 15>>}
AluOps == {4, 5, 6, 7, 14}
ByteVals == {0, 1, 100, 200, 255}

\* 6Xa 6Yb 8XYk
AluRoms ==
    {<<96 + XY[1], a, 96 + XY[2], b, 128 + XY[1], XY[2] * 16 + k>> :
        XY \in RegPairs, a \in ByteVals, b \in ByteVals, k \in AluOps}

DrawXs == {0, 60, 63, 70}
DrawYs == {0, 31, 33}

\* 6Xa 6Yb A20A DXYN 1208 and the sprite rows FF 81 at 0x20A
DrawRoms ==
    {<<96 + XY[1], a, 96 + XY[2], b, 162, 10, 208 + XY[1], XY[2] * 16 + N, 18, 8, 255, 129>> :
        XY \in {<<0, 1>>, <<1, 0>>}, a \in DrawXs, b \in DrawYs, N \in 0..MaxSpriteRows}

\* What follows the timer stores at 0x206: FX07 and a loop, an unrecognized
\* opcode, or a wait for a key
TimerTails == {<<241, 7, 18, 8>>, <<128, 24>>, <<241, 10, 18, 8>>}

\* 60a F015 F018 and a tail
TimerRoms == {<<96, a, 240, 21, 240, 24>> \o t : a \in 0..MaxTimer, t \in TimerTails}

\* FX0A 1202
KeyRoms == {<<240 + X, 10, 18, 2>> : X \in {0, 1}}

\* 1FFF (the next fetch reads memory[0x1000]) and 00EE on the empty stack
FaultRoms == {<<31, 255>>, <<0, 238>>}

\* A file of L bytes that starts with 1200 (a jump to itself)
BigRom(L) == [i \in 1..L |-> IF i = 1 THEN 18 ELSE IF i = 2 THEN 0 ELSE (i * 7 + 5) % 256]

BigRoms == {BigRom(L) : L \in {ROM_SIZE_MAX - 1, ROM_SIZE_MAX, ROM_SIZE_MAX + 1, ROM_SIZE_MAX + 300}}

\* d nested calls, each returned from: the routine at 0x200 + 4k calls the one at
\* 0x200 + 4(k + 1) and then returns (the first one loops instead, 1202); the
\* last routine, at 0x200 + 4d, returns at once
CallRom(d) ==
    [i \in 1..(4 * d + 2) |->
        LET k == (i - 1) \div 4
            j == (i - 1) % 4
        IN  IF j < 2 /\ k < d
            THEN (IF j = 0 THEN 32 + (PROGRAM_START + 4 * (k + 1)) \div 256
                           ELSE (PROGRAM_START + 4 * (k + 1)) % 256)
            ELSE IF k = 0 THEN (IF j = 2 THEN 18 ELSE 2)
            ELSE (IF j % 2 = 0 THEN 0 ELSE 238)]

\* The nested calls, and 2200, a routine that calls itself for ever
CallRoms == {CallRom(d) : d \in 1..MaxCallDepth} \cup {<<34, 0>>}

\* <<VX, VY>> of the double draws, and the sprite on the screen before them:
\* <<low byte of its address, 0 for no rows or 1 for the N rows of the DXYN>>
DoublePos == {<<0, 0>>, <<60, 31>>, <<62, 5>>}
DoubleBefore == {<<20, 0>>, <<20, 1>>, <<22, 1>>}
DoubleRows == {0, 1, 2, 15}

\* 6Xa 6Yb A2bb DXYn A216 DXYN DXYN 00E0 1210, then 0000 and the bytes 3C C3 at
\* 0x214 and E1 8F at 0x216: the sprite at 0x216 is drawn twice over what the
\* first DXYn has drawn
DoubleDrawRoms ==
    {<<96 + XY[1], P[1], 96 + XY[2], P[2], 162, B[1], 208 + XY[1], XY[2] * 16 + B[2] * N,
       162, 22, 208 + XY[1], XY[2] * 16 + N, 208 + XY[1], XY[2] * 16 + N,
       0, 224, 18, 16, 0, 0, 60, 195, 225, 143>> :
        XY \in {<<0, 1>>, <<2, 2>>, <<15, 0>>}, P \in DoublePos, B \in DoubleBefore,
        N \in DoubleRows}

\* 00E0 1202: a clear of the screen nothing has been drawn on
ClearRoms == {<<0, 224, 18, 2>>}

\* Opcodes no case of the switch takes: 0123, 00E1, 8019, 801F, E0FF, E19F, F0FF, F166
UnknownOps == {<<1, 35>>, <<0, 225>>, <<128, 25>>, <<128, 31>>, <<224, 255>>, <<225, 159>>,
               <<240, 255>>, <<241, 102>>}

\* 6003 F015 F029 D005 and the opcode: the digit 3 is on the screen and the delay
\* timer runs when the opcode is fetched
UnknownRoms == {<<96, 3, 240, 21, 240, 41, 208, 5>> \o op : op \in UnknownOps}

\* 60v 61w ANNN and FX33, FX55 or FX65, with I in the font, at its end, and after it
StoreRoms ==
    {<<96, v, 97, 7, 160 + A \div 256, A % 256>> \o op :
        v \in {123, 255}, A \in {0, 78, 80, 768},
        op \in {<<240, 51>>, <<241, 85>>, <<241, 101>>}}

\* Transfers to an odd address: 1203; 6001 B206; 2205 with 00EE at 0x205; and
\* 6002 B206, which jumps to the even 0x208
OddJumpRoms == {<<18, 3>>, <<96, 1, 178, 6>>, <<34, 5, 18, 2, 0, 0, 238>>, <<96, 2, 178, 6>>}

\* 6F01 6Xa 7Xb: VF holds 1 when 7XNN adds
AddImmRoms ==
    {<<111, 1, 96 + X, a, 112 + X, b>> : X \in {0, 14}, a \in {0, 100, 255}, b \in {0, 1, 200, 255}}

\* The opcodes of the register and immediate compares: 3007 4007 5010 9010, and
\* 5011 901F, whose last digit is not 0
CompareOps == {<<48, 7>>, <<64, 7>>, <<80, 16>>, <<144, 16>>, <<80, 17>>, <<144, 31>>}

\* 60a 61b and a compare
SkipRoms == {<<96, a, 97, b>> \o op : a \in {0, 7}, b \in {0, 7}, op \in CompareOps}

\* 60k and E09E or E0A1: k a key the user presses, a key nobody presses, and
\* 16, which is no key
KeySkipRoms == {<<96, k, 224, nn>> : k \in {15, 3, 16}, nn \in {158, 161}}

\* 60a F015 F107 1204: FX07 follows the FX15 at once, and runs again and again
ReadDelayRoms == {<<96, a, 240, 21, 241, 7, 18, 4>> : a \in 0..MaxTimer}

\* 600C 610A 801k for k in 0..3; C003; 6005 A100 F01E
MiscRoms == {<<96, 12, 97, 10, 128, 16 + k>> : k \in 0..3} \cup {<<192, 3>>, <<96, 5, 161, 0, 240, 30>>}

\* 6009 6FC8 ANNN and FF55 or FF65, at 0x300 and at 0xFF0, where the block of 16
\* ends with the memory
RegBlockRoms ==
    {<<96, 9, 111, 200, 160 + A \div 256, A % 256, 255, nn>> : A \in {768, 4080}, nn \in {85, 101}}

\* 60v A300 F033 for every byte v, and 60FF AFFE F033, whose third digit would
\* go to memory[0x1000]
BcdRoms == {<<96, v, 163, 0, 240, 51>> : v \in Byte} \cup {<<96, 255, 175, 254, 240, 51>>}

\* 6XFF CXNN: the masks 00, 03, A5, FF on V0 and A5 on VF
RandRoms ==
    {<<96 + XNN[1], 255, 192 + XNN[1], XNN[2]>> :
        XNN \in {<<0, 0>>, <<0, 3>>, <<0, 165>>, <<0, 255>>, <<15, 165>>}}

\* Accesses at the end of memory: 60FF AFFD F033 stores at 0xFFD..0xFFF; AFFF D001
\* reads memory[0xFFF] and AFFF D002 would read memory[0x1000]; 60FF BFFF jumps
\* to 0x10FE
EdgeRoms ==
    {<<96, 255, 175, 253, 240, 51>>, <<175, 255, 208, 1>>, <<175, 255, 208, 2>>, <<96, 255, 191, 255>>}

\* Programs the emulator is also started on with the option -o: shifts, stores
\* and loads of registers, a wait for a key
CompatRoms ==
    {<<96, 255, 97, 100, 128, 16 + k>> : k \in {6, 14}}
        \cup {<<96, 123, 97, 7, 163, 0, 241, nn>> : nn \in {85, 101}}
        \cup {<<240, 10, 18, 2>>}

Roms ==
    AluRoms \cup DrawRoms \cup TimerRoms \cup KeyRoms \cup FaultRoms \cup BigRoms \cup {<<>>}
        \cup CallRoms \cup DoubleDrawRoms \cup ClearRoms \cup UnknownRoms \cup StoreRoms
        \cup OddJumpRoms \cup AddImmRoms \cup SkipRoms \cup KeySkipRoms \cup ReadDelayRoms
        \cup MiscRoms \cup RegBlockRoms \cup RandRoms \cup EdgeRoms

File(bytes) == [exists |-> TRUE, bytes |-> bytes]
NoFile == [exists |-> FALSE, bytes |-> <<>>]
\* ./assets/roms/PONG, when present: a short program stands for it
PongFile == File(<<18, 0>>)

----------------------------------------------------------------------------
(* The state machine *)

\* Emulator::Emulator() and Chip8::Chip8(), the files on disk, and the option -o
\* of main(), which sets old_instructions
Init ==
    /\ phase = "startup"
    /\ error = ""
    /\ step_parity = 0
    /\ calls = <<>>
    /\ prev = [pixels |-> Chip8Init.pixels, V |-> Chip8Init.V, I |-> Chip8Init.I]
    /\ sound_played = FALSE
    /\ paused = FALSE
    /\ have_focus = FALSE
    /\ screen = {}
    /\ step_draw_flag = FALSE
    /\ pause_presses = 0
    /\ \/ chip8 = Chip8Init /\ rom_file \in {File(b) : b \in Roms} /\ default_file = PongFile
       \/ chip8 = Chip8Init /\ rom_file = NoFile /\ default_file \in {PongFile, NoFile}
       \/ /\ chip8 = [Chip8Init EXCEPT !.old_instructions = TRUE]
          /\ rom_file \in {File(b) : b \in CompatRoms}
          /\ default_file = PongFile

\* Emulator::startup: setupWindow sets have_focus, then chip8.load(rom_path); an exception leaves run() and
\* main() returns EXIT_FAILURE
Load ==
    /\ phase = "startup"
    /\ LET rom == IF rom_file.exists THEN rom_file ELSE default_file
       IN  IF ~rom.exists
           THEN /\ phase' = "exit_failure"
                /\ error' = "Failed ifstream"
                /\ UNCHANGED chip8
           ELSE IF TooLarge(Len(rom.bytes))
           THEN /\ phase' = "exit_failure"
                /\ error' = "File too large"
                /\ UNCHANGED chip8
           ELSE /\ phase' = "loop"
                /\ chip8' = load(chip8, rom.bytes)
                /\ UNCHANGED error
    /\ have_focus' = TRUE
    /\ UNCHANGED <<rom_file, default_file, step_parity, calls, prev, sound_played, paused, screen,
                   step_draw_flag, pause_presses>>

\* The values rand() % 256 can take where the next instruction uses one
RandValues(c) == IF c.memory[c.pc] \div 16 = 12 THEN Byte ELSE {0}

\* chip8.step(), updateScreen() and handleSound() in the loop of Emulator::run,
\* which runs them when the window has the focus and the emulator is not paused
Step ==
    /\ phase = "loop"
    /\ have_focus /\ ~paused
    /\ ~OutOfBounds(chip8)
    /\ \E r \in RandValues(chip8) :
          LET c1 == step(chip8, r)
          IN  /\ chip8' = updateScreen(c1)
              /\ screen' = displayed(c1, screen)
              /\ step_draw_flag' = c1.draw_flag
    /\ step_parity' = 1 - step_parity
    /\ calls' = (IF Fetch(chip8) \div 4096 = 2
                 THEN Append(calls, [at |-> chip8.pc, sp |-> chip8.sp])
                 ELSE IF Fetch(chip8) = 238 /\ Len(calls) > 0
                 THEN SubSeq(calls, 1, Len(calls) - 1)
                 ELSE calls)
    /\ prev' = [pixels |-> chip8.pixels, V |-> chip8.V, I |-> chip8.I]
    /\ sound_played' = handleSound(chip8')
    /\ UNCHANGED <<phase, error, rom_file, default_file, paused, have_focus, pause_presses>>

\* chip8.step() where it indexes outside an array
StepUndefined ==
    /\ phase = "loop"
    /\ have_focus /\ ~paused
    /\ OutOfBounds(chip8)
    /\ phase' = "undefined"
    /\ UNCHANGED <<chip8, error, rom_file, default_file, step_parity, calls, prev, sound_played,
                   paused, have_focus, screen, step_draw_flag, pause_presses>>

\* Emulator::handleInput, a KeyPressed (value TRUE) or KeyReleased event of a mapped key
KeyEvent ==
    /\ phase = "loop"
    /\ \E key \in HostKeys, value \in BOOLEAN : chip8' = setKey(chip8, key, value)
    /\ UNCHANGED <<phase, error, rom_file, default_file, step_parity, calls, prev, sound_played,
                   paused, have_focus, screen, step_draw_flag, pause_presses>>

\* Emulator::handleInput, a KeyPressed event of P or Pause, neither of which is
\* a key of the keypad
PauseKey ==
    /\ phase = "loop"
    /\ paused' = togglePause(paused)
    /\ pause_presses' = 1 - pause_presses
    /\ UNCHANGED <<chip8, phase, error, rom_file, default_file, step_parity, calls, prev,
                   sound_played, have_focus, screen, step_draw_flag>>

\* Emulator::handleInput, a LostFocus (value FALSE) or GainedFocus event
FocusEvent ==
    /\ phase = "loop"
    /\ \E value \in BOOLEAN : have_focus' = value
    /\ UNCHANGED <<chip8, phase, error, rom_file, default_file, step_parity, calls, prev,
                   sound_played, paused, screen, step_draw_flag, pause_presses>>

\* The user presses and releases keys of the keypad only
Next == Load \/ Step \/ StepUndefined \/ KeyEvent

Spec == Init /\ [][Next]_vars

\* The emulator started on a program that holds an unrecognized opcode, or one
\* that makes a step index outside an array
InitUnknown ==
    /\ Init
    /\ rom_file \in {File(b) : b \in UnknownRoms \cup TimerRoms \cup FaultRoms}

\* The emulator started on a program that converts a byte to decimal
InitBcd ==
    /\ phase = "startup"
    /\ error = ""
    /\ step_parity = 0
    /\ calls = <<>>
    /\ prev = [pixels |-> Chip8Init.pixels, V |-> Chip8Init.V, I |-> Chip8Init.I]
    /\ sound_played = FALSE
    /\ paused = FALSE
    /\ have_focus = FALSE
    /\ screen = {}
    /\ step_draw_flag = FALSE
    /\ pause_presses = 0
    /\ chip8 = Chip8Init
    /\ rom_file \in {File(b) : b \in BcdRoms}
    /\ default_file = PongFile

BcdSpec == InitBcd /\ [][Next]_vars

\* The programs the emulator runs while the user also pauses it and moves the
\* focus: timers running with FX07 read in a loop, a sprite drawn, a wait for a
\* key, 00EE on the empty stack
HostRoms ==
    {<<96, 3, 240, 21, 240, 24, 241, 7, 18, 8>>,
     <<96, 60, 97, 31, 162, 10, 208, 18, 18, 8, 255, 129>>,
     <<240, 10, 18, 2>>,
     <<0, 238>>}

InitHost ==
    /\ Init
    /\ rom_file \in {File(b) : b \in HostRoms}
    /\ ~chip8.old_instructions

\* The user presses and releases keys of the keypad, presses P or Pause, and
\* moves the focus to and from the window
HostNext == Next \/ PauseKey \/ FocusEvent

HostSpec == InitHost /\ [][HostNext]_vars

\* Step, by what tells it from the other actions: it is taken where Step can
\* be taken and it is the one action that changes step_parity
StepCalled ==
    /\ phase = "loop"
    /\ have_focus /\ ~paused
    /\ ~OutOfBounds(chip8)
    /\ step_parity' = 1 - step_parity

\* The loop of Emulator::run calls chip8.step() in every iteration (of a window
\* that has the focus, the emulator not paused): a step that can be taken is taken
FairSpec == InitUnknown /\ [][Next]_vars /\ WF_step_parity(StepCalled)

----------------------------------------------------------------------------
(* Properties.  A transition is a call of chip8.step() exactly when it     *)
(* changes step_parity; in such a transition chip8 is the machine before   *)
(* the call and chip8' the machine after it, with draw_flag as the         *)
(* updateScreen of the same iteration left it: step_draw_flag' is the flag *)
(* as the call left it.                                                    *)

IsStep == step_parity' # step_parity

Max(a, b) == IF a >= b THEN a ELSE b

\* The fields of the instruction the step fetches
OpX == FieldX(Fetch(chip8))
OpY == FieldY(Fetch(chip8))
OpN == FieldN(Fetch(chip8))
OpNN == FieldNN(Fetch(chip8))
OpHi == Fetch(chip8) \div 4096

\* The step executes 8XYk
IsAlu(k) == IsStep /\ OpHi = 8 /\ OpN = k

\* The pixels whose value the transition changes
ChangedPixels == (chip8.pixels \ chip8'.pixels) \cup (chip8'.pixels \ chip8.pixels)

\* Row (VY + r) mod 32, column (VX + c) mod 64, as an index of pixels
PerAxisTarget(r, col) ==
    ((chip8.V[OpY] + r) % HEIGHT) * WIDTH + ((chip8.V[OpX] + col) % WIDTH)

SetSpriteBits ==
    {rc \in (0..(OpN - 1)) \X (0..7) :
        (chip8.memory[chip8.I + rc[1]] \div (2 ^ (7 - rc[2]))) % 2 = 1}

\* C1: DXYN wraps each axis on its own: the pixels a draw changes are those at
\* row (VY + r) mod 32, column (VX + c) mod 64 for the set sprite bits (r, c),
\* so a sprite at VX = 60 stays in its rows.
C1_DrawWrapsPerAxis ==
    [][IsStep /\ OpHi = 13 /\ OpX # 15 /\ OpY # 15
         => ChangedPixels = {PerAxisTarget(rc[1], rc[2]) : rc \in SetSpriteBits}]_vars

\* C2: 8XY7 with X, Y # F leaves VF = 0 if VY < VX and 1 otherwise, and
\* VX = (VY - VX) mod 256.
C2_SubRegReverseFlag ==
    [][IsAlu(7) /\ OpX # 15 /\ OpY # 15
         => /\ chip8'.V[15] = (IF chip8.V[OpY] < chip8.V[OpX] THEN 0 ELSE 1)
            /\ chip8'.V[OpX] = (chip8.V[OpY] - chip8.V[OpX] + 256) % 256]_vars

\* C3: 8XY6 with X # F, X = Y included, leaves VF = the lowest bit VY had and
\* VX = old VY >> 1.
C3_ShiftRightFlag ==
    [][IsAlu(6) /\ OpX # 15
         => /\ chip8'.V[15] = chip8.V[OpY] % 2
            /\ chip8'.V[OpX] = chip8.V[OpY] \div 2]_vars

\* C4: 8XYE with X # F, X = Y included, leaves VF = bit 7 VY had and
\* VX = (old VY << 1) mod 256.
C4_ShiftLeftFlag ==
    [][IsAlu(14) /\ OpX # 15
         => /\ chip8'.V[15] = chip8.V[OpY] \div 128
            /\ chip8'.V[OpX] = (chip8.V[OpY] * 2) % 256]_vars

\* C5: 8XY4 with X # F and any Y, Y = F included, leaves VF = 1 if old VX + old
\* VY > 255 and 0 otherwise, and VX = (old VX + old VY) mod 256.
C5_AddRegCarry ==
    [][IsAlu(4) /\ OpX # 15
         => /\ chip8'.V[15] = (IF chip8.V[OpX] + chip8.V[OpY] > 255 THEN 1 ELSE 0)
            /\ chip8'.V[OpX] = (chip8.V[OpX] + chip8.V[OpY]) % 256]_vars

\* C6: 8XY5 with X, Y # F leaves VF = 0 if old VX < old VY and 1 otherwise (1 when
\* they are equal), and VX = (old VX - old VY) mod 256.
C6_SubRegBorrow ==
    [][IsAlu(5) /\ OpX # 15 /\ OpY # 15
         => /\ chip8'.V[15] = (IF chip8.V[OpX] < chip8.V[OpY] THEN 0 ELSE 1)
            /\ chip8'.V[OpX] = (chip8.V[OpX] - chip8.V[OpY] + 256) % 256]_vars

\* 8015 has run on V0 = 100, V1 = 200: V0 = 156 and VF = 0
C6_Witness ==
    /\ chip8.opcode = 32789
    /\ chip8.pc = PROGRAM_START + 6
    /\ chip8.memory[PROGRAM_START + 1] = 100
    /\ chip8.V[1] = 200
    /\ chip8.V[0] = 156
    /\ chip8.V[15] = 0

\* The step fetches FX0A
IsWaitKey == IsStep /\ OpHi = 15 /\ OpNN = 10

NoKeyPressed == \A k \in 0..(NUM_KEYS - 1) : ~chip8.keys_pressed[k]

\* C7: a step on FX0A with no key pressed leaves PC, V0..VF, I, the stack and
\* memory as they were; a step on FX0A with some key pressed sets VX to the index
\* of a pressed key and advances PC by 2.
C7_WaitKeyBlocks ==
    [][IsWaitKey
         => IF NoKeyPressed
            THEN /\ chip8'.pc = chip8.pc
                 /\ chip8'.V = chip8.V
                 /\ chip8'.I = chip8.I
                 /\ chip8'.stack = chip8.stack
                 /\ chip8'.sp = chip8.sp
                 /\ chip8'.memory = chip8.memory
            ELSE /\ chip8'.V[OpX] \in 0..(NUM_KEYS - 1)
                 /\ chip8.keys_pressed[chip8'.V[OpX]]
                 /\ chip8'.pc = chip8.pc + 2]_vars

\* F10A at 0x206 has run on a pressed key, after steps that found none pressed
\* (the timers set to 3 have run out while it waited)
C7_Witness ==
    /\ chip8.opcode = 61706
    /\ chip8.pc = PROGRAM_START + 8
    /\ chip8.V[0] = 3
    /\ chip8.sound_timer = 0
    /\ chip8.V[1] \in HostKeys
    /\ chip8.keys_pressed[chip8.V[1]]

\* The value a timer has after the instruction part of the step: VX where the
\* instruction is the store to that timer (FX15 is NN = 21, FX18 is NN = 24)
TimerAfterInstruction(NN, timer) ==
    IF OpHi = 15 /\ OpNN = NN THEN chip8.V[OpX] ELSE timer

\* C8: every step, whatever it fetches, ends with one tick of each timer: the
\* timer ends at max(t - 1, 0), t its value after the instruction; no timer is
\* negative.
C8_OneTickPerStep ==
    [][IsStep
         => /\ chip8'.delay_timer = Max(TimerAfterInstruction(21, chip8.delay_timer) - 1, 0)
            /\ chip8'.sound_timer = Max(TimerAfterInstruction(24, chip8.sound_timer) - 1, 0)
            /\ chip8'.delay_timer \in Byte
            /\ chip8'.sound_timer \in Byte]_vars

\* The unrecognized 8018 has been stepped on with the timers running: 6003 F015
\* F018 left delay = 1 and sound = 2, the step on 8018 delay = 0 and sound = 1
C8_Witness ==
    /\ chip8.opcode = 32792
    /\ chip8.pc = PROGRAM_START + 6
    /\ chip8.V[0] = 3
    /\ chip8.delay_timer = 0
    /\ chip8.sound_timer = 1

\* The file load() reads: the one at rom_path, else the default one
OpenedFile == IF rom_file.exists THEN rom_file ELSE default_file

\* The transition is the call of load()
IsLoad == phase = "startup" /\ phase' # phase

\* C9: loading a program of L <= 3584 bytes succeeds, sets memory[0x200 + i] to
\* byte i for 0 <= i < L, and leaves the rest of memory (the font included) and
\* every other part of the machine unchanged.
C9_LoadCopiesProgram ==
    [][IsLoad /\ OpenedFile.exists /\ Len(OpenedFile.bytes) <= 3584
         => /\ phase' = "loop"
            /\ error' = ""
            /\ \A i \in 0..(Len(OpenedFile.bytes) - 1) :
                   chip8'.memory[512 + i] = OpenedFile.bytes[i + 1]
            /\ \A a \in 0..4095 :
                   (a < 512 \/ a >= 512 + Len(OpenedFile.bytes))
                       => chip8'.memory[a] = chip8.memory[a]
            /\ [chip8' EXCEPT !.memory = chip8.memory] = chip8]_vars

\* A file of 3584 bytes has been loaded: its last byte, 5, is at 0xFFF and the
\* font is in place
C9_Witness ==
    /\ phase = "loop"
    /\ rom_file.exists
    /\ Len(rom_file.bytes) = 3584
    /\ chip8.memory[4095] = 5
    /\ chip8.memory[4094] = 254
    /\ chip8.memory[0] = 240

\* C10: loading a program of more than 3584 bytes fails with the oversize error
\* and leaves the whole machine as it was; nothing runs after the failed load.
C10_OversizeRejected ==
    [][/\ (IsLoad /\ OpenedFile.exists /\ Len(OpenedFile.bytes) > 3584)
            => /\ phase' = "exit_failure"
               /\ error' = "File too large"
               /\ chip8' = chip8
       /\ phase # "exit_failure"]_vars

\* The load of a file of 3585 bytes has failed
C10_Witness ==
    /\ phase = "exit_failure"
    /\ error = "File too large"
    /\ Len(rom_file.bytes) = 3585
    /\ chip8 = Chip8Init
    /\ step_parity = 0

\* The step fetches 00EE, 2NNN
IsReturn == IsStep /\ Fetch(chip8) = 238
IsCall == IsStep /\ OpHi = 2

\* The call the next 00EE returns from: the last 2NNN not yet returned from
MatchingCall == calls[Len(calls)]

\* C11: the 00EE that matches a 2NNN executed at address P leaves PC = P + 2 and
\* the stack pointer at the value it had before that 2NNN, however many calls
\* (up to 16 active at once) were made and returned from in between; a 2NNN
\* leaves PC = NNN.
C11_SubroutineDiscipline ==
    [][/\ (IsReturn /\ Len(calls) > 0)
            => /\ chip8'.pc = MatchingCall.at + 2
               /\ chip8'.sp = MatchingCall.sp
       /\ IsCall => chip8'.pc = FieldNNN(Fetch(chip8))]_vars

\* Sixteen nested calls have been made and returned from, in 16 00EE: the machine
\* is back after the first 2NNN, at 0x202, and stack[15] holds the address of the
\* sixteenth
C11_Witness ==
    /\ chip8.opcode = 238
    /\ chip8.pc = PROGRAM_START + 2
    /\ chip8.sp = 0
    /\ calls = <<>>
    /\ chip8.stack[15] = PROGRAM_START + 60
    /\ chip8.stack[0] = PROGRAM_START

\* The step fetches DXYN
IsDraw == IsStep /\ OpHi = 13

\* The step fetches the DXYN the step before it executed, with I, VX and VY as
\* they were before that step: prev is then the machine before the first of the
\* two draws.  A DXYN writes no memory, so the sprite bytes are the same too.
IsSecondDraw ==
    /\ IsDraw
    /\ chip8.opcode = Fetch(chip8)
    /\ prev.I = chip8.I
    /\ prev.V[OpX] = chip8.V[OpX]
    /\ prev.V[OpY] = chip8.V[OpY]

\* C12: the second of two DXYN in a row, with the same I, sprite bytes, VX and VY
\* and with X, Y # F, leaves every pixel as it was before the first.
C12_DoubleDrawIdentity ==
    [][IsSecondDraw /\ OpX # 15 /\ OpY # 15 => chip8'.pixels = prev.pixels]_vars

\* D01F has run twice at (62, 5), over what D01F drew there from 0x214: the
\* screen shows that first sprite again, and differs from the screen between
\* the two draws
C12_Witness ==
    /\ chip8.opcode = 53279
    /\ chip8.pc = PROGRAM_START + 14
    /\ chip8.V[0] = 62
    /\ chip8.V[1] = 5
    /\ chip8.memory[PROGRAM_START + 5] = 20
    /\ chip8.pixels # {}
    /\ chip8.pixels # prev.pixels

\* The pixels the set sprite bits of the DXYN target, for X, Y # F
TouchedPixels == {pixel_location(chip8, OpX, OpY, rc[1], rc[2]) : rc \in SetSpriteBits}

\* C13 as stated: after the second of two identical draws VF = 1 whenever some
\* pixel touched by a set sprite bit was set before the first draw.
C13_SecondDrawFlagIfSetBefore ==
    [][IsSecondDraw /\ OpX # 15 /\ OpY # 15 /\ TouchedPixels \cap prev.pixels # {}
         => chip8'.V[15] = 1]_vars

\* C13, amended: after the second of two identical draws (X, Y # F) VF = 1
\* exactly when some pixel touched by a set sprite bit was unset before the
\* first draw, and VF = 0 otherwise.
C13_SecondDrawFlagIffUnsetBefore ==
    [][IsSecondDraw /\ OpX # 15 /\ OpY # 15
         => chip8'.V[15] = (IF TouchedPixels \ prev.pixels # {} THEN 1 ELSE 0)]_vars

\* D012 has run twice at (60, 31) over the same sprite, drawn there by a D012
\* before them: every touched pixel was set before the first of the two, the
\* second collides with nothing and leaves VF = 0 and the sprite on the screen
C13_Witness ==
    /\ chip8.opcode = 53266
    /\ chip8.pc = PROGRAM_START + 14
    /\ chip8.V[0] = 60
    /\ chip8.V[1] = 31
    /\ chip8.memory[PROGRAM_START + 5] = 22
    /\ chip8.V[15] = 0
    /\ prev.V[15] = 1
    /\ chip8.pixels # {}
    /\ prev.pixels = {}

\* C14: after DXYN, VF = 1 if some pixel went from set to unset in this draw and
\* VF = 0 otherwise (N = 0 and an all-zero sprite included); as many pixels
\* change as the sprite has set bits and, for X, Y # F, they are the pixels the
\* set bits target, every other pixel keeping its value; draw_flag is true.
C14_DrawCollisionFlag ==
    [][IsDraw
         => /\ chip8'.V[15] = (IF chip8.pixels \ chip8'.pixels # {} THEN 1 ELSE 0)
            /\ Cardinality(ChangedPixels) = Cardinality(SetSpriteBits)
            /\ (OpX # 15 /\ OpY # 15) => ChangedPixels = TouchedPixels
            /\ step_draw_flag' = TRUE]_vars

\* D011 has drawn the row E1 at (0, 0) over the row 3C: of the touched columns
\* 0, 1, 2, 7 only column 2 was set, so it is unset now and VF = 1; columns 3,
\* 4, 5 lie under clear bits and stay set
C14_Witness ==
    /\ chip8.opcode = 53265
    /\ chip8.pc = PROGRAM_START + 12
    /\ chip8.memory[PROGRAM_START + 5] = 20
    /\ chip8.V[15] = 1
    /\ step_draw_flag
    /\ chip8.pixels = {0, 1, 3, 4, 5, 7}
    /\ prev.pixels = {2, 3, 4, 5}

\* C15: a step on 00E0 leaves every pixel false and draw_flag true, advances PC
\* by 2 and leaves V0..VF, I, the stack, the stack pointer and memory unchanged.
C15_ClearScreen ==
    [][IsStep /\ Fetch(chip8) = 224
         => /\ chip8'.pixels = {}
            /\ step_draw_flag' = TRUE
            /\ chip8'.pc = chip8.pc + 2
            /\ chip8'.V = chip8.V
            /\ chip8'.I = chip8.I
            /\ chip8'.stack = chip8.stack
            /\ chip8'.sp = chip8.sp
            /\ chip8'.memory = chip8.memory]_vars

\* 00E0 at 0x20E has cleared a screen that showed a sprite; V0, V1 and I are
\* what the program set them to
C15_Witness ==
    /\ chip8.opcode = 224
    /\ chip8.pc = PROGRAM_START + 16
    /\ chip8.pixels = {}
    /\ prev.pixels # {}
    /\ step_draw_flag
    /\ chip8.V[0] = 60
    /\ chip8.V[1] = 31
    /\ chip8.I = PROGRAM_START + 22

\* The opcodes no case of the switch takes, as the instruction table lists them
Unrecognized(op) ==
    LET hi == op \div 4096
    IN  \/ hi = 0 /\ op \notin {224, 238}
        \/ hi = 8 /\ FieldN(op) \in (8..13) \cup {15}
        \/ hi = 14 /\ FieldNN(op) \notin {158, 161}
        \/ hi = 15 /\ FieldNN(op) \notin {7, 10, 21, 24, 30, 41, 51, 85, 101}

\* C16: a step that fetches an unrecognized opcode leaves PC, V0..VF, I, the
\* stack, the stack pointer, memory, the pixels, the keys and draw_flag
\* unchanged; each timer ticks once.
C16_UnrecognizedIsNoOp ==
    [][IsStep /\ Unrecognized(Fetch(chip8))
         => /\ chip8'.pc = chip8.pc
            /\ chip8'.V = chip8.V
            /\ chip8'.I = chip8.I
            /\ chip8'.stack = chip8.stack
            /\ chip8'.sp = chip8.sp
            /\ chip8'.memory = chip8.memory
            /\ chip8'.pixels = chip8.pixels
            /\ chip8'.keys_pressed = chip8.keys_pressed
            /\ step_draw_flag' = chip8.draw_flag
            /\ chip8'.delay_timer = Max(chip8.delay_timer - 1, 0)
            /\ chip8'.sound_timer = Max(chip8.sound_timer - 1, 0)]_vars

\* 801F at 0x208 has been stepped on twice: PC is still 0x208, the digit 3 is
\* still on the screen, a key is held, and the delay timer set to 3 has run out
C16_Witness ==
    /\ chip8.opcode = 32799
    /\ chip8.pc = PROGRAM_START + 8
    /\ chip8.V[0] = 3
    /\ chip8.I = 15
    /\ chip8.delay_timer = 0
    /\ chip8.pixels # {}
    /\ chip8.pixels = prev.pixels
    /\ ~step_draw_flag
    /\ screen = chip8.pixels
    /\ \E k \in HostKeys : chip8.keys_pressed[k]

\* Addresses at which programs of UnknownRoms and TimerRoms hold an unrecognized
\* opcode
UnrecognizedSites == {PROGRAM_START + 6, PROGRAM_START + 8}

\* The next step fetches an unrecognized opcode at address p
AtUnrecognized(p) ==
    /\ phase = "loop"
    /\ chip8.pc = p
    /\ Unrecognized(Fetch(chip8))

\* C17: when PC points at an unrecognized opcode, repeated steps lead to a fetch
\* at a different address: the machine does not stay on that opcode for ever.
\* Stated for the addresses 0x206 and 0x208.
C17_FailSoftProgress ==
    \A p \in UnrecognizedSites : AtUnrecognized(p) ~> (chip8.pc # p)

\* The hexadecimal digit sprites are at memory[0x000..0x04F]
FontIntact(c) == \A a \in 0..(Len(sprites) - 1) : c.memory[a] = sprites[a + 1]

\* C18 as stated: in every reachable state, whatever the program, memory
\* 0x000..0x04F holds the digit sprites the constructor wrote.
C18_FontNeverOverwritten == FontIntact(chip8)

\* The step fetches FX33 or FX55 with I inside the font
IsFontStore == IsStep /\ OpHi = 15 /\ OpNN \in {51, 85} /\ chip8.I < Len(sprites)

\* C18, amended: memory 0x000..0x04F holds the digit sprites after construction,
\* and neither load nor any step changes a byte of it, except a step on FX33 or
\* FX55 with I < 0x050 (which stores at I, I + 1, ..).
C18_FontChangedOnlyByStoreInFont ==
    /\ FontIntact(chip8)
    /\ [][\/ IsFontStore
           \/ \A a \in 0..(Len(sprites) - 1) : chip8'.memory[a] = chip8.memory[a]]_vars

\* F155 has stored V0 = 255 and V1 = 7 at 0x050 and 0x051, next to the font,
\* which is in place
C18_Witness ==
    /\ chip8.opcode = 61781
    /\ chip8.I = 82
    /\ chip8.memory[80] = 255
    /\ chip8.memory[81] = 7
    /\ chip8.memory[79] = 128
    /\ FontIntact(chip8)

\* C19 as stated: at the start of every step, whatever the program, PC is even.
C19_PcAlwaysEven == phase = "loop" => chip8.pc % 2 = 0

\* The return addresses on the stack are even
StackEven(c) == \A i \in 0..(c.sp - 1) : c.stack[i] % 2 = 0

\* The step fetches a transfer to an odd address: 1NNN or 2NNN with NNN odd, or
\* BNNN with NNN + V0 odd
IsOddTransfer ==
    \/ OpHi \in {1, 2} /\ FieldNNN(Fetch(chip8)) % 2 = 1
    \/ OpHi = 11 /\ (FieldNNN(Fetch(chip8)) + chip8.V[0]) % 2 = 1

\* C19, amended: PC is 0x200, and the stack empty, at the start of the first
\* step; a step that starts with PC and the return addresses on the stack even
\* ends with them even, unless it executes 1NNN or 2NNN with odd NNN or BNNN with
\* NNN + V0 odd.  So PC is even at the start of every step of a program that
\* executes no such transfer.
C19_PcEvenUnlessOddTransfer ==
    [][/\ (IsLoad /\ phase' = "loop")
            => chip8'.pc = PROGRAM_START /\ chip8'.sp = 0
       /\ (IsStep /\ chip8.pc % 2 = 0 /\ StackEven(chip8) /\ ~IsOddTransfer)
            => chip8'.pc % 2 = 0 /\ StackEven(chip8')]_vars

\* B206 has run with V0 = 2: PC is the even 0x208
C19_Witness ==
    /\ phase = "loop"
    /\ chip8.opcode = 45574
    /\ chip8.V[0] = 2
    /\ chip8.pc = PROGRAM_START + 8

\* C20 as stated: in every reachable state, whatever the program, 0 <= sp < 16.
C20_SpBelow16 == chip8.sp \in 0..(NUM_REGS - 1)

\* C20, amended: in every state reached without an access outside the stack, sp
\* is the number of calls not yet returned from and 0 <= sp <= 16 (16 when 16
\* calls are active); stack[i] holds the address of the i-th of them, so every
\* 2NNN so far wrote at an index in 0..15.  The accesses outside the stack are
\* those of a 2NNN with sp = 16 (index 16) and of a 00EE with sp = 0 (index 255).
C20_SpCountsActiveCalls ==
    /\ chip8.sp = Len(calls)
    /\ chip8.sp \in 0..NUM_REGS
    /\ \A i \in 1..Len(calls) :
           /\ calls[i].sp = i - 1
           /\ chip8.stack[i - 1] = calls[i].at
    /\ phase = "undefined" /\ chip8.pc + 1 < MEM_SIZE /\ Fetch(chip8) \div 4096 = 2
           => chip8.sp = NUM_REGS
    /\ phase = "undefined" /\ chip8.pc + 1 < MEM_SIZE /\ Fetch(chip8) = 238
           => chip8.sp = 0

\* Sixteen calls are active: sp = 16, the last 2NNN wrote stack[15], and the
\* machine runs on
C20_Witness ==
    /\ phase = "loop"
    /\ chip8.sp = NUM_REGS
    /\ Len(calls) = NUM_REGS
    /\ chip8.stack[NUM_REGS - 1] = calls[NUM_REGS].at
    /\ chip8.pc = PROGRAM_START + 4 * NUM_REGS

----------------------------------------------------------------------------
\* The step executes 7XNN
IsAddImm == IsStep /\ OpHi = 7

\* C21: for X other than F, a step that executes 7XNN leaves in VX the sum of
\* VX and NN modulo 256 and changes no other register, VF included, also when
\* the sum is above 255; so where the step before it executed 6XNN1 on the
\* same X, VX is (NN1 + NN) modulo 256.
C21_AddImmNoCarry ==
    [][IsAddImm /\ OpX # 15 =>
          /\ chip8'.V[OpX] = (chip8.V[OpX] + OpNN) % 256
          /\ \A r \in 0..15 : r # OpX => chip8'.V[r] = chip8.V[r]
          /\ (chip8.opcode \div 4096 = 6 /\ FieldX(chip8.opcode) = OpX =>
                 chip8'.V[OpX] = (FieldNN(chip8.opcode) + OpNN) % 256)]_vars

\* 6F01 6E64 7EFF has run: VE = (100 + 255) mod 256 = 99 and VF is still 1
C21_Witness ==
    /\ chip8.opcode = 32511
    /\ chip8.V[14] = 99
    /\ chip8.V[15] = 1
    /\ chip8.pc = 518

----------------------------------------------------------------------------
\* C22: the host has played the sound in the last iteration of the loop exactly
\* when the sound timer the step left is strictly greater than 1; with a sound
\* timer of 0 or 1 no sound is played.
C22_SoundAboveThreshold ==
    /\ sound_played <=> chip8.sound_timer > 1
    /\ chip8.sound_timer \in {0, 1} => ~sound_played

\* 6003 F015 F018 has run: the sound timer is 2 and the sound was played
C22_Witness ==
    /\ chip8.opcode = 61464
    /\ chip8.sound_timer = 2
    /\ sound_played

----------------------------------------------------------------------------
\* The machine c with old_instructions set to v
WithOldInstructions(c, v) == [c EXCEPT !.old_instructions = v]

----------------------------------------------------------------------------
\* The keys whose value the transition changes
ChangedKeys == {k \in 0..(NUM_KEYS - 1) : chip8'.keys_pressed[k] # chip8.keys_pressed[k]}

\* C24: no key is pressed after construction; no step changes any of the 16
\* keys, whatever it executes; and a transition that changes a key changes one
\* key and nothing else of the machine.
C24_KeypadWrittenByHostOnly ==
    /\ NoKeyPressed
    /\ [][/\ IsStep => ChangedKeys = {}
          /\ ChangedKeys # {} =>
                /\ Cardinality(ChangedKeys) = 1
                /\ [chip8' EXCEPT !.keys_pressed = chip8.keys_pressed] = chip8]_vars

\* 600F E09E has run with key F held: the skip was taken and the key is still
\* pressed
C24_Witness ==
    /\ chip8.opcode = 57502
    /\ chip8.V[0] = 15
    /\ chip8.keys_pressed[15]
    /\ chip8.pc = 518

----------------------------------------------------------------------------
\* The step executes FX55, FX65
IsStoreRegs == IsStep /\ OpHi = 15 /\ OpNN = 85
IsLoadRegs == IsStep /\ OpHi = 15 /\ OpNN = 101

\* C25: a step on FX55 leaves V0..VX in memory[I..I+X] and changes no other
\* memory cell and no register; a step on FX65 leaves memory[I..I+X] in V0..VX
\* and changes no register above VX and no memory cell; both leave I at the old
\* I + X + 1 and PC two further.
C25_StoreLoadRegs ==
    [][/\ IsStoreRegs =>
             /\ \A a \in 0..(MEM_SIZE - 1) :
                    chip8'.memory[a] = IF a >= chip8.I /\ a <= chip8.I + OpX
                                       THEN chip8.V[a - chip8.I]
                                       ELSE chip8.memory[a]
             /\ chip8'.V = chip8.V
             /\ chip8'.I = chip8.I + OpX + 1
             /\ chip8'.pc = chip8.pc + 2
       /\ IsLoadRegs =>
             /\ \A r \in 0..OpX : chip8'.V[r] = chip8.memory[chip8.I + r]
             /\ \A r \in (OpX + 1)..15 : chip8'.V[r] = chip8.V[r]
             /\ chip8'.memory = chip8.memory
             /\ chip8'.I = chip8.I + OpX + 1
             /\ chip8'.pc = chip8.pc + 2]_vars

\* 6009 6FC8 AFF0 FF55 has run: V0..VF are at 0xFF0..0xFFF, and I is 0x1000
C25_Witness ==
    /\ chip8.opcode = 65365
    /\ chip8.I = 4096
    /\ chip8.memory[4080] = 9
    /\ chip8.memory[4095] = 200
    /\ chip8.memory[4079] = 0
    /\ chip8.V[15] = 200
    /\ chip8.pc = 520

----------------------------------------------------------------------------
\* The step executes FX33
IsStoreBcd == IsStep /\ OpHi = 15 /\ OpNN = 51

\* C26: a step on FX33 with VX = v leaves v div 100 in memory[I], (v div 10) mod 10
\* in memory[I + 1] and v mod 10 in memory[I + 2]: three digits in 0..9 with
\* 100 * memory[I] + 10 * memory[I + 1] + memory[I + 2] = v; I, the registers and
\* every other memory cell are as before.
C26_StoreBcdDigits ==
    [][IsStoreBcd =>
          LET v == chip8.V[OpX]
              at == chip8.I
          IN  /\ chip8'.memory[at] = v \div 100
              /\ chip8'.memory[at + 1] = (v \div 10) % 10
              /\ chip8'.memory[at + 2] = v % 10
              /\ 100 * chip8'.memory[at] + 10 * chip8'.memory[at + 1] + chip8'.memory[at + 2] = v
              /\ \A d \in 0..2 : chip8'.memory[at + d] \in 0..9
              /\ chip8'.I = chip8.I
              /\ chip8'.V = chip8.V
              /\ \A a \in 0..(MEM_SIZE - 1) :
                    a \notin at..(at + 2) => chip8'.memory[a] = chip8.memory[a]]_vars

\* 60FF A300 F033 has run: 2, 5, 5 are at 0x300..0x302
C26_Witness ==
    /\ chip8.opcode = 61491
    /\ chip8.V[0] = 255
    /\ chip8.I = 768
    /\ chip8.memory[768] = 2
    /\ chip8.memory[769] = 5
    /\ chip8.memory[770] = 5
    /\ chip8.memory[771] = 0

----------------------------------------------------------------------------
\* The step executes one of 3XNN, 4XNN, 5XY0, 9XY0, EX9E, EXA1
IsConditionalSkip ==
    /\ IsStep
    /\ \/ OpHi \in {3, 4}
       \/ OpHi \in {5, 9} /\ OpN = 0
       \/ OpHi = 14 /\ OpNN \in {158, 161}

\* The condition of the skip the step executes
SkipCondition ==
    CASE OpHi = 3 -> chip8.V[OpX] = OpNN
      [] OpHi = 4 -> chip8.V[OpX] # OpNN
      [] OpHi = 5 -> chip8.V[OpX] = chip8.V[OpY]
      [] OpHi = 9 -> chip8.V[OpX] # chip8.V[OpY]
      [] OpHi = 14 /\ OpNN = 158 -> chip8.keys_pressed[chip8.V[OpX]]
      [] OpHi = 14 /\ OpNN = 161 -> ~chip8.keys_pressed[chip8.V[OpX]]

\* C27: a step on 3XNN, 4XNN, 5XY0, 9XY0, EX9E or EXA1 leaves PC at PC + 4 when
\* the condition of the instruction holds and at PC + 2 when it does not, and
\* leaves the registers, I, the stack, memory, the pixels and the keys as they
\* were.
C27_SkipsChangeOnlyPc ==
    [][IsConditionalSkip =>
          /\ chip8'.pc = chip8.pc + (IF SkipCondition THEN 4 ELSE 2)
          /\ chip8'.V = chip8.V
          /\ chip8'.I = chip8.I
          /\ chip8'.stack = chip8.stack
          /\ chip8'.sp = chip8.sp
          /\ chip8'.memory = chip8.memory
          /\ chip8'.pixels = chip8.pixels
          /\ chip8'.keys_pressed = chip8.keys_pressed]_vars

\* 6000 6107 9010 has run: V0 and V1 differ and the skip was taken
C27_Witness ==
    /\ chip8.opcode = 36880
    /\ chip8.V[0] = 0
    /\ chip8.V[1] = 7
    /\ chip8.pc = 520

----------------------------------------------------------------------------
\* The step executes FX15, FX18, FX07
IsSetDelay == IsStep /\ OpHi = 15 /\ OpNN = 21
IsSetSound == IsStep /\ OpHi = 15 /\ OpNN = 24
IsReadDelay == IsStep /\ OpHi = 15 /\ OpNN = 7

\* The step before this one executed FX15
AfterSetDelay == chip8.opcode \div 4096 = 15 /\ FieldNN(chip8.opcode) = 21

\* C28: a step on FX15 (FX18) with VX = v leaves the delay (sound) timer at
\* max(v - 1, 0); a step on FX07 leaves in VX the delay timer as it was before
\* the step, so in the step right after an FX15 with VX = v it reads
\* max(v - 1, 0).
C28_SetAndTickInOneStep ==
    [][/\ IsSetDelay => chip8'.delay_timer = Max(chip8.V[OpX] - 1, 0)
       /\ IsSetSound => chip8'.sound_timer = Max(chip8.V[OpX] - 1, 0)
       /\ IsReadDelay =>
             /\ chip8'.V[OpX] = chip8.delay_timer
             /\ AfterSetDelay =>
                   chip8'.V[OpX] = Max(prev.V[FieldX(chip8.opcode)] - 1, 0)]_vars

\* 6003 F015 F107 has run: V1 read 2, and the delay timer has ticked to 1
C28_Witness ==
    /\ chip8.opcode = 61703
    /\ prev.V[1] = 0
    /\ chip8.V[0] = 3
    /\ chip8.V[1] = 2
    /\ chip8.delay_timer = 1

----------------------------------------------------------------------------
\* The step executes a recognized instruction that is not 00EE, 1NNN, 2NNN or
\* BNNN, not a conditional skip (3XNN, 4XNN, 5XYN, 9XYN, EXNN), and not an FX0A
\* with no key pressed
IsPlainInstruction ==
    /\ IsStep
    /\ ~Unrecognized(Fetch(chip8))
    /\ Fetch(chip8) # 238
    /\ OpHi \notin {1, 2, 11, 3, 4, 5, 9, 14}
    /\ ~(OpHi = 15 /\ OpNN = 10 /\ NoKeyPressed)

\* C29: a step on a recognized instruction that is no control transfer, no
\* conditional skip and no FX0A with no key pressed leaves PC at PC + 2; a step
\* on 1NNN leaves PC at NNN and a step on BNNN leaves it at NNN + V0.
C29_PcAdvancesByTwo ==
    [][/\ IsPlainInstruction => chip8'.pc = chip8.pc + 2
       /\ IsStep /\ OpHi = 1 => chip8'.pc = FieldNNN(Fetch(chip8))
       /\ IsStep /\ OpHi = 11 => chip8'.pc = FieldNNN(Fetch(chip8)) + chip8.V[0]]_vars

\* 6005 A100 F01E has run: I is 0x105 and PC is two past the FX1E
C29_Witness ==
    /\ chip8.opcode = 61470
    /\ chip8.I = 261
    /\ chip8.V[0] = 5
    /\ chip8.pc = 518

----------------------------------------------------------------------------
\* The step fetches 5XYN or 9XYN with N other than 0
IsInexactCompare == IsStep /\ OpHi \in {5, 9} /\ OpN # 0

\* C30: a step that fetches 5XYN or 9XYN with N other than 0 handles it as an
\* unrecognized opcode: PC, the registers, I, the stack and memory are as
\* before, and no skip is made.
C30_InexactCompareUnrecognized ==
    [][IsInexactCompare =>
          /\ chip8'.pc = chip8.pc
          /\ chip8'.V = chip8.V
          /\ chip8'.I = chip8.I
          /\ chip8'.sp = chip8.sp
          /\ chip8'.stack = chip8.stack
          /\ chip8'.memory = chip8.memory]_vars

----------------------------------------------------------------------------
\* The step executes 00E0 or DXYN
IsDrawingStep == IsStep /\ (Fetch(chip8) = 224 \/ OpHi = 13)

\* A step taken with draw_flag set leaves it set, whatever it executes
StepKeepsDrawFlag ==
    phase = "loop" /\ ~OutOfBounds(chip8) =>
        \A r \in RandValues(chip8) : step([chip8 EXCEPT !.draw_flag = TRUE], r).draw_flag

\* C31: draw_flag is false after construction; a step that finds it false
\* leaves it true only when it executes 00E0 or DXYN, and a step that finds it
\* true leaves it true; transitions other than the iteration of the loop do
\* not change it; and after every iteration the host has cleared it with the
\* window showing the pixels as they are, so no draw is lost.
C31_RedrawFlag ==
    /\ ~chip8.draw_flag
    /\ [][/\ IsStep /\ step_draw_flag' /\ ~chip8.draw_flag => IsDrawingStep
          /\ IsStep /\ chip8.draw_flag => step_draw_flag'
          /\ ~IsStep => chip8'.draw_flag = chip8.draw_flag /\ screen' = screen]_vars
    /\ [](StepKeepsDrawFlag /\ ~chip8.draw_flag /\ screen = chip8.pixels)

\* 6000 6100 A20A D010.. 1208: a sprite was drawn and shown, and the jump after
\* it has run: the window still shows the sprite and no redraw is pending
C31_Witness ==
    /\ chip8.opcode = 4616
    /\ ~step_draw_flag
    /\ ~chip8.draw_flag
    /\ screen # {}
    /\ screen = chip8.pixels

----------------------------------------------------------------------------
\* The digits 0 and F of the font: F0 90 90 90 F0 and F0 80 F0 80 80
FontDigit0 == <<240, 144, 144, 144, 240>>
FontDigitF == <<240, 128, 240, 128, 128>>

\* C32: before load and before any step the machine is as the constructor
\* leaves it: PC = 0x200, sp = 0, I = 0, the registers, the stack and both
\* timers 0, no key pressed, no pixel lit, draw_flag false, the font in
\* memory[0x000..0x04F] and 0 in every byte from 0x050 to 0xFFF.
C32_ConstructedState ==
    phase = "startup" =>
        /\ chip8.pc = 512
        /\ chip8.sp = 0
        /\ chip8.I = 0
        /\ \A r \in 0..15 : chip8.V[r] = 0 /\ chip8.stack[r] = 0
        /\ chip8.delay_timer = 0
        /\ chip8.sound_timer = 0
        /\ \A k \in 0..15 : ~chip8.keys_pressed[k]
        /\ \A i \in 0..2047 : i \notin chip8.pixels
        /\ ~chip8.draw_flag
        /\ \A a \in 0..79 : chip8.memory[a] = sprites[a + 1]
        /\ \A a \in 0..4 : chip8.memory[a] = FontDigit0[a + 1] /\ chip8.memory[75 + a] = FontDigitF[a + 1]
        /\ \A a \in 80..4095 : chip8.memory[a] = 0

\* The emulator is constructed and about to load a file: nothing has run, the
\* digit 1 of the font (20 60 20 20 70) is at 0x005
C32_Witness ==
    /\ phase = "startup"
    /\ rom_file.exists
    /\ step_parity = 0
    /\ chip8.pc = 512
    /\ chip8.memory[5] = 32
    /\ chip8.memory[9] = 112
    /\ chip8.memory[512] = 0

----------------------------------------------------------------------------
\* The step executes CXNN
IsRandom == IsStep /\ OpHi = 12

\* The next step executes CXNN
AtRandom == phase = "loop" /\ have_focus /\ ~paused /\ ~OutOfBounds(chip8) /\ OpHi = 12

\* The values the step can leave in the VX of the CXNN it executes, one for
\* each value of rand() % 256
RandomResults == {step(chip8, r).V[OpX] : r \in RandValues(chip8)}

\* C33: a step on CXNN leaves in VX no bit that is not set in NN (so NN = 0
\* gives 0), advances PC by 2 and changes nothing else; and where the next step
\* executes CXNN, each value r AND NN for r in 0..255 is a VX with which the
\* step can end.
C33_RandomMasked ==
    /\ [][IsRandom =>
             /\ BitAnd(chip8'.V[OpX], 255 - OpNN) = 0
             /\ OpNN = 0 => chip8'.V[OpX] = 0
             /\ \A r \in 0..15 : r # OpX => chip8'.V[r] = chip8.V[r]
             /\ chip8'.pc = chip8.pc + 2
             /\ chip8'.I = chip8.I
             /\ chip8'.sp = chip8.sp
             /\ chip8'.stack = chip8.stack
             /\ chip8'.memory = chip8.memory
             /\ chip8'.pixels = chip8.pixels
             /\ chip8'.keys_pressed = chip8.keys_pressed]_vars
    /\ [](AtRandom => \A r \in Byte : BitAnd(r, OpNN) \in RandomResults)

\* 60FF C0A5 has run and the draw had all bits of the mask set: V0 = A5
C33_Witness ==
    /\ chip8.opcode = 49317
    /\ chip8.V[0] = 165
    /\ chip8.pc = 516

----------------------------------------------------------------------------
\* The keys pressed when the transition starts
KeysHeld == {k \in 0..(NUM_KEYS - 1) : chip8.keys_pressed[k]}

\* C34: a step on FX0A with one or more keys pressed leaves in VX a pressed key
\* that no pressed key has a higher index than, and PC at PC + 2.
C34_WaitKeyHighestIndex ==
    [][IsWaitKey /\ KeysHeld # {} =>
          /\ chip8'.V[OpX] \in KeysHeld
          /\ \A k \in KeysHeld : k <= chip8'.V[OpX]
          /\ chip8'.pc = chip8.pc + 2]_vars

\* F00A has run with the keys A and F both held: V0 = F
C34_Witness ==
    /\ chip8.opcode = 61450
    /\ chip8.keys_pressed[10]
    /\ chip8.keys_pressed[15]
    /\ chip8.V[0] = 15
    /\ chip8.pc = 514

----------------------------------------------------------------------------
\* The step executes 8XY4, 8XY5, 8XY6, 8XY7, 8XYE or DXYN
IsFlagProducing == IsStep /\ (OpHi = 13 \/ (OpHi = 8 /\ OpN \in {4, 5, 6, 7, 14}))

\* C35: after a step on 8XY4, 8XY5, 8XY6, 8XY7, 8XYE or DXYN, whatever X and Y
\* are, VF is 0 or 1.
C35_FlagIsZeroOrOne ==
    [][IsFlagProducing => chip8'.V[15] \in {0, 1}]_vars

----------------------------------------------------------------------------
\* The next step executes EX9E or EXA1
AtKeySkip == phase = "loop" /\ chip8.pc + 1 < MEM_SIZE /\ OpHi = 14 /\ OpNN \in {158, 161}

\* C36: whenever the next step executes EX9E or EXA1, the VX it indexes the
\* keys with is in 0..15.
C36_KeyIndexInRange ==
    AtKeySkip => chip8.V[OpX] \in 0..15

----------------------------------------------------------------------------
\* The memory addresses the next step reads or writes: the two of the fetch,
\* and those the fetched instruction uses
NextStepAddresses ==
    {chip8.pc, chip8.pc + 1} \cup
        (IF chip8.pc + 1 >= 4096 THEN {}
         ELSE IF OpHi = 13 THEN {chip8.I + row : row \in 0..(OpN - 1)}
         ELSE IF OpHi = 15 /\ OpNN = 51 THEN {chip8.I, chip8.I + 1, chip8.I + 2}
         ELSE IF OpHi = 15 /\ OpNN \in {85, 101} THEN {chip8.I + r : r \in 0..OpX}
         ELSE {})

\* The next step indexes the stack or the keys outside the array
NextStepIndexOutside ==
    /\ chip8.pc + 1 < 4096
    /\ \/ Fetch(chip8) = 238 /\ chip8.sp = 0
       \/ OpHi = 2 /\ chip8.sp >= 16
       \/ OpHi = 14 /\ OpNN \in {158, 161} /\ chip8.V[OpX] >= 16

----------------------------------------------------------------------------
\* The machine but for its keys
Frozen(c) == [c EXCEPT !.keys_pressed = Chip8Init.keys_pressed]

\* C38: chip8.step() is called only with the focus on the window and the
\* emulator not paused; a transition that starts in the loop with the emulator
\* paused or the window without focus changes nothing of the machine but its
\* keys, and not the frame shown; and the emulator is paused exactly after an
\* odd number of presses of P or Pause, so two presses restore running.
C38_HostLoopGating ==
    /\ [][/\ IsStep => have_focus /\ ~paused
          /\ phase = "loop" /\ (paused \/ ~have_focus) =>
                /\ Frozen(chip8') = Frozen(chip8)
                /\ screen' = screen
                /\ ~IsStep]_vars
    /\ [](paused <=> pause_presses = 1)

\* 6003 F015 has run, then the emulator was paused, the focus left the window
\* and the key F was pressed: the key is down and the delay timer stands at 2
C38_Witness ==
    /\ phase = "loop"
    /\ paused
    /\ ~have_focus
    /\ chip8.opcode = 61461
    /\ chip8.delay_timer = 2
    /\ chip8.keys_pressed[15]

====
